---- MODULE Spec2Model ----
(***************************************************************************)
(* Model of ntpServer/main.py: the DetailedNTPSync engine (failover over   *)
(* the primary and the backup NTP servers, the stored last sync) and the   *)
(* two FastAPI handlers /time and /status that call it.                    *)
(*                                                                         *)
(* The handlers are coroutines on one asyncio event loop: a step of the    *)
(* model is the code that runs between two awaits.  The only await is the  *)
(* NTP query (asyncio.to_thread), so each query is issued by one step and  *)
(* its reply or failure is handled by the next step of the same call.      *)
(*                                                                         *)
(* Time is counted in ticks of 1/TicksPerSec second since the Unix epoch.  *)
(* An Optional value is a sequence: <<>> is None and <<v>> is the value v. *)
(***************************************************************************)
EXTENDS Integers, Sequences, FiniteSets, TLC

\* ------------------------------------------------------------------ bounds
\* number of /time requests that can be in flight at the same time
NumCalls == 2
\* ticks per second: the resolution of the clock of the model
TicksPerSec == 2

\* the freshness window of get_sync_status, in seconds
FreshWindow == 120

\* the clock advances by the freshness window, or by one tick more, between
\* two observations, and stops at MaxClock
ClockSteps == {FreshWindow * TicksPerSec, FreshWindow * TicksPerSec + 1}
MaxClock == FreshWindow * TicksPerSec + 1

Calls == 1..NumCalls

\* ----------------------------------------------------------- configuration
primary_server == "time.nist.gov"
backup_servers == <<"pool.ntp.org", "time.google.com", "time.windows.com">>

None == <<>>
Some(v) == <<v>>

\* ------------------------------------------------------------- environment
\* What NTPClient.request can return: tx_time in seconds since the epoch,
\* offset and delay in microseconds (floats of seconds in the code).  The
\* second reply carries a transmit timestamp before 1970 (ntplib subtracts
\* the NTP epoch delta from the 32 bit field, so a zeroed field is year 1900).
Replies ==
  { [tx_time |-> 3661,  offset |-> -1500, delay |-> 20900, stratum |-> 1],
    [tx_time |-> -7200, offset |-> 2700,  delay |-> 35000, stratum |-> 2] }

\* What NTPClient.request can raise: ntplib's NTPException when no reply
\* arrives within the timeout.  The handlers catch every exception alike and
\* an exception is told from another by the host it was raised for.
Errors == {"NTPException"}

\* UTC offset of the host's local timezone, in seconds.
TzOffsets == {0, 19800, -14400}

\* Timezone identifiers a client can put in the query string of GET /time.
\* get_ntp_time declares no parameter, so every identifier is handled alike;
\* an unknown one stands for all of them.
Timezones == {"Not/AZone"}

VARIABLES
  last_response,         \* DetailedNTPSync.last_response
  last_successful_sync,  \* DetailedNTPSync.last_successful_sync (ticks)
  clock,                 \* the host's wall clock, in ticks
  tzoffset,              \* the host's local UTC offset, in seconds
  pc,                    \* per call: where get_detailed_time is suspended
  idx,                   \* per call: index of the backup server being queried
  e,                     \* per call: the exception bound by "except Exception as e"
  hist,                  \* per call: the queries issued so far and their outcomes
  ret,                   \* per call: what the call returned or raised
  req,                   \* per call: the timezone query parameter of the request
  status_resp            \* the body of the last /status response

vars == <<last_response, last_successful_sync, clock, tzoffset,
          pc, idx, e, hist, ret, req, status_resp>>

sync == <<last_response, last_successful_sync>>

\* ----------------------------------------------------------- conversions
Digit == <<"0", "1", "2", "3", "4", "5", "6", "7", "8", "9">>

\* "%02d" of a number in 0..99
D2(n) == Digit[(n \div 10) + 1] \o Digit[(n % 10) + 1]

Abs(n) == IF n >= 0 THEN n ELSE -n

\* int(x * 1000) of a float of seconds, x given in microseconds: int()
\* truncates toward zero
ToMs(us) == IF us >= 0 THEN us \div 1000 ELSE -((-us) \div 1000)

\* strftime("%H:%M:%S") of the instant s (seconds) in a zone off seconds
\* east of UTC
HMS(s, off) ==
  LET t == (s + off) % 86400
  IN  D2(t \div 3600) \o ":" \o D2((t % 3600) \div 60) \o ":" \o D2(t % 60)

\* strftime("%H:%M:%S.%f")[:-4] of the instant t (ticks): two decimals
HMSf(t, off) ==
  HMS(t \div TicksPerSec, off) \o "." \o D2(((t % TicksPerSec) * 100) \div TicksPerSec)

\* strftime('%z') of a datetime whose utcoffset is off seconds
StrfZ(off) ==
  LET a == Abs(off)
      sign == IF off < 0 THEN "-" ELSE "+"
      hh == a \div 3600
      mm == (a % 3600) \div 60
      ss == a % 60
  IN  sign \o D2(hh) \o D2(mm) \o (IF ss # 0 THEN D2(ss) ELSE "")

\* datetime.isoformat() of the naive local datetime at instant t (ticks);
\* the calendar covers the days the bounded clock can reach
IsoFormat(t, off) ==
  LET s == (t \div TicksPerSec) + off
      day == s \div 86400
      date == IF day < 0 THEN "1969-12-31"
              ELSE IF day = 0 THEN "1970-01-01" ELSE "1970-01-02"
      us == IF t % TicksPerSec = 0 THEN ""
            ELSE "." \o D2(((t % TicksPerSec) * 100) \div TicksPerSec) \o "0000"
  IN  date \o "T" \o HMS(s, 0) \o us

\* datetime.fromtimestamp(tx_time[, tz]) raises OSError on platforms whose C
\* library rejects instants before the epoch, and returns elsewhere
CanRaise(r) == r.tx_time < 0

\* ------------------------------------------------------- values of a call
\* the exception NTPClient.request raised for a host
QueryError(type, host) == [type |-> type, host |-> host]

\* the exception raised while the response is being built from a reply
BuildError == [type |-> "OSError", host |-> ""]

\* one entry of a call's query log
Pending(server) == [server |-> server, state |-> "pending", reply |-> None, error |-> None]

\* the log h with its outstanding query answered by reply r
Answered(h, r) ==
  [h EXCEPT ![Len(h)] = [@ EXCEPT !.state = "ok", !.reply = Some(r)]]

\* the log h with its outstanding query failed with exception x
Failed(h, x) ==
  [h EXCEPT ![Len(h)] = [@ EXCEPT !.state = "failed", !.error = Some(x)]]

\* the NTPResponse of the try block, from the primary's reply r; now is the
\* clock, lss the value self.last_successful_sync holds, off the local offset
PrimaryResult(r, now, lss, off) ==
  [kind               |-> "NTPResponse",
   time_server        |-> primary_server,
   received_ntp_time  |-> HMS(r.tx_time, 0),
   offset_ms          |-> ToMs(r.offset),
   round_trip_time_ms |-> ToMs(r.delay),
   stratum            |-> r.stratum,
   system_time        |-> HMSf(now, 0),
   last_sync          |-> HMS(lss \div TicksPerSec, off),
   timezone_offset    |-> StrfZ(off)]

\* the backup loop reporting the primary server as the try block does
BackupResultPrimaryName(server, r, now, off) ==
  [kind               |-> "NTPResponse",
   time_server        |-> primary_server,
   received_ntp_time  |-> HMS(r.tx_time, off),
   offset_ms          |-> ToMs(r.offset),
   round_trip_time_ms |-> ToMs(r.delay),
   stratum            |-> r.stratum,
   system_time        |-> HMSf(now, off),
   last_sync          |-> HMS(now \div TicksPerSec, off),
   timezone_offset    |-> StrfZ(off)]

\* the NTPResponse of the backup loop, from the reply r of server
BackupResult(server, r, now, off) ==
  [kind               |-> "NTPResponse",
   time_server        |-> server,
   received_ntp_time  |-> HMS(r.tx_time, off),
   offset_ms          |-> ToMs(r.offset),
   round_trip_time_ms |-> ToMs(r.delay),
   stratum            |-> r.stratum,
   system_time        |-> HMSf(now, off),
   last_sync          |-> HMS(now \div TicksPerSec, off),
   timezone_offset    |-> StrfZ(off)]

\* the HTTPException raised after the backup loop; it is raised inside the
\* except block, so Python chains the exception being handled as __context__
AllFailed(ctx) ==
  [kind        |-> "HTTPException",
   status_code |-> 503,
   detail      |-> "Failed to reach any NTP servers",
   context     |-> ctx]

\* the store that keeps the time of the first sync once there is one
StoreKeepsTime(r, now) ==
  <<Some(r), IF last_successful_sync = None THEN Some(now) ELSE last_successful_sync>>

\* the store with the assignment to self.last_response left out
StoreTimeOnly(r, now) == <<None, Some(now)>>

\* the two assignments to self after the primary's reply r arrived at now
Store(r, now) == <<Some(r), Some(now)>>

\* get_sync_status with the window closed at its end (<= for <)
get_sync_status_closed(now, lss) ==
  IF lss = None
  THEN "No sync yet"
  ELSE LET time_diff == now - lss[1]
       IN  IF time_diff <= FreshWindow * TicksPerSec
           THEN "Last timestamp received less than 2 minutes ago"
           ELSE "Last sync was " \o ToString(time_diff \div TicksPerSec) \o " seconds ago"

\* DetailedNTPSync.get_sync_status at instant now, lss being
\* self.last_successful_sync
get_sync_status(now, lss) ==
  IF lss = None
  THEN "No sync yet"
  ELSE LET time_diff == now - lss[1]
       IN  IF time_diff < FreshWindow * TicksPerSec
           THEN "Last timestamp received less than 2 minutes ago"
           ELSE "Last sync was " \o ToString(time_diff \div TicksPerSec) \o " seconds ago"

\* ------------------------------------------------------------------ state
Init ==
  /\ last_response = None
  /\ last_successful_sync = None
  /\ clock = 0
  /\ tzoffset \in TzOffsets
  /\ pc = [p \in Calls |-> "idle"]
  /\ idx = [p \in Calls |-> 0]
  /\ e = [p \in Calls |-> None]
  /\ hist = [p \in Calls |-> <<>>]
  /\ ret = [p \in Calls |-> None]
  /\ req = [p \in Calls |-> None]
  /\ status_resp = None

\* a call that waits until no other call is in flight, as under a lock held
\* across the query
CallLocked(p, tz) ==
  /\ pc[p] = "idle"
  /\ \A q \in Calls : pc[q] \in {"idle", "done"}
  /\ pc' = [pc EXCEPT ![p] = "primary"]
  /\ req' = [req EXCEPT ![p] = Some(tz)]
  /\ hist' = [hist EXCEPT ![p] = <<Pending(primary_server)>>]
  /\ UNCHANGED <<last_response, last_successful_sync, clock, tzoffset,
                 idx, e, ret, status_resp>>

\* a call that answers from the stored sample when there is one, without a
\* query
CallCached(p, tz) ==
  /\ pc[p] = "idle"
  /\ req' = [req EXCEPT ![p] = Some(tz)]
  /\ IF last_response # None
     THEN /\ pc' = [pc EXCEPT ![p] = "done"]
          /\ hist' = hist
          /\ ret' = [ret EXCEPT ![p] =
               Some(PrimaryResult(last_response[1], clock, last_successful_sync[1], tzoffset))]
     ELSE /\ pc' = [pc EXCEPT ![p] = "primary"]
          /\ hist' = [hist EXCEPT ![p] = <<Pending(primary_server)>>]
          /\ ret' = ret
  /\ UNCHANGED <<last_response, last_successful_sync, clock, tzoffset,
                 idx, e, status_resp>>

\* GET /time arrives: get_ntp_time calls get_detailed_time, which runs up to
\* its first await, the query of the primary server
Call(p, tz) ==
  /\ pc[p] = "idle"
  /\ pc' = [pc EXCEPT ![p] = "primary"]
  /\ req' = [req EXCEPT ![p] = Some(tz)]
  /\ hist' = [hist EXCEPT ![p] = <<Pending(primary_server)>>]
  /\ UNCHANGED <<last_response, last_successful_sync, clock, tzoffset,
                 idx, e, ret, status_resp>>

\* a backup loop that starts over at the first backup server when the list
\* is exhausted
NextBackupWraps(p, h, x) ==
  IF idx[p] < Len(backup_servers)
  THEN /\ idx' = [idx EXCEPT ![p] = idx[p] + 1]
       /\ hist' = [hist EXCEPT ![p] = Append(h, Pending(backup_servers[idx[p] + 1]))]
       /\ pc' = [pc EXCEPT ![p] = "backup"]
       /\ ret' = ret
  ELSE /\ idx' = [idx EXCEPT ![p] = 1]
       /\ hist' = [hist EXCEPT ![p] = <<h[1], Pending(backup_servers[1])>>]
       /\ pc' = [pc EXCEPT ![p] = "backup"]
       /\ ret' = ret

\* a backup loop that queries each backup server a second time before it
\* moves on
NextBackupRetry(p, h, x) ==
  IF idx[p] < Len(backup_servers) \/ Len(h) < 2 * Len(backup_servers)
  THEN LET n == IF idx[p] > 0 /\ Len(h) % 2 = 0 THEN idx[p]
                ELSE IF idx[p] < Len(backup_servers) THEN idx[p] + 1 ELSE idx[p]
       IN  /\ idx' = [idx EXCEPT ![p] = n]
           /\ hist' = [hist EXCEPT ![p] = Append(h, Pending(backup_servers[n]))]
           /\ pc' = [pc EXCEPT ![p] = "backup"]
           /\ ret' = ret
  ELSE /\ idx' = idx
       /\ hist' = [hist EXCEPT ![p] = h]
       /\ pc' = [pc EXCEPT ![p] = "done"]
       /\ ret' = [ret EXCEPT ![p] = Some(AllFailed(x))]

\* the rest of the except block from the backup loop's next iteration on:
\* query the next backup server, or raise when the list is exhausted; h is
\* the call's log and x the exception the except block handles
NextBackup(p, h, x) ==
  IF idx[p] < Len(backup_servers)
  THEN /\ idx' = [idx EXCEPT ![p] = idx[p] + 1]
       /\ hist' = [hist EXCEPT ![p] = Append(h, Pending(backup_servers[idx[p] + 1]))]
       /\ pc' = [pc EXCEPT ![p] = "backup"]
       /\ ret' = ret
  ELSE /\ idx' = idx
       /\ hist' = [hist EXCEPT ![p] = h]
       /\ pc' = [pc EXCEPT ![p] = "done"]
       /\ ret' = [ret EXCEPT ![p] = Some(AllFailed(x))]

\* the primary's reply r arrives: store it, build the response and return
\* it; an exception of the build is caught by "except Exception"
PrimaryReply(p, r) ==
  /\ pc[p] = "primary"
  /\ last_response' = Store(r, clock)[1]
  /\ last_successful_sync' = Store(r, clock)[2]
  /\ \E raises \in (IF CanRaise(r) THEN BOOLEAN ELSE {FALSE}) :
       IF raises
       THEN /\ e' = [e EXCEPT ![p] = Some(BuildError)]
            /\ NextBackup(p, Answered(hist[p], r), Some(BuildError))
       ELSE /\ e' = e
            /\ idx' = idx
            /\ hist' = [hist EXCEPT ![p] = Answered(hist[p], r)]
            /\ pc' = [pc EXCEPT ![p] = "done"]
            /\ ret' = [ret EXCEPT ![p] =
                 Some(PrimaryResult(r, clock, last_successful_sync'[1], tzoffset))]
  /\ UNCHANGED <<clock, tzoffset, req, status_resp>>

\* a failure of the primary that erases the stored sync
PrimaryFailErases(p, err) ==
  /\ pc[p] = "primary"
  /\ e' = [e EXCEPT ![p] = Some(QueryError(err, primary_server))]
  /\ NextBackup(p, Failed(hist[p], QueryError(err, primary_server)),
                Some(QueryError(err, primary_server)))
  /\ last_response' = None
  /\ last_successful_sync' = None
  /\ UNCHANGED <<clock, tzoffset, req, status_resp>>

\* the primary's query raises err: the except block starts the backup loop
PrimaryFail(p, err) ==
  /\ pc[p] = "primary"
  /\ e' = [e EXCEPT ![p] = Some(QueryError(err, primary_server))]
  /\ NextBackup(p, Failed(hist[p], QueryError(err, primary_server)),
                Some(QueryError(err, primary_server)))
  /\ UNCHANGED <<last_response, last_successful_sync, clock, tzoffset,
                 req, status_resp>>

\* a backup's reply r arrives: build the response and return it; an
\* exception of the build is caught by the bare except, which continues
BackupReply(p, r) ==
  /\ pc[p] = "backup"
  /\ \E raises \in (IF CanRaise(r) THEN BOOLEAN ELSE {FALSE}) :
       IF raises
       THEN NextBackup(p, Answered(hist[p], r), e[p])
       ELSE /\ idx' = idx
            /\ hist' = [hist EXCEPT ![p] = Answered(hist[p], r)]
            /\ pc' = [pc EXCEPT ![p] = "done"]
            /\ ret' = [ret EXCEPT ![p] =
                 Some(BackupResult(backup_servers[idx[p]], r, clock, tzoffset))]
  /\ UNCHANGED <<last_response, last_successful_sync, clock, tzoffset,
                 e, req, status_resp>>

\* a backup's query raises err: the bare except continues with the next one
BackupFail(p, err) ==
  /\ pc[p] = "backup"
  /\ NextBackup(p, Failed(hist[p], QueryError(err, backup_servers[idx[p]])), e[p])
  /\ UNCHANGED <<last_response, last_successful_sync, clock, tzoffset,
                 e, req, status_resp>>

\* the response (or the error response) of a finished call is sent
Respond(p) ==
  /\ pc[p] = "done"
  /\ pc' = [pc EXCEPT ![p] = "idle"]
  /\ idx' = [idx EXCEPT ![p] = 0]
  /\ e' = [e EXCEPT ![p] = None]
  /\ hist' = [hist EXCEPT ![p] = <<>>]
  /\ ret' = [ret EXCEPT ![p] = None]
  /\ req' = [req EXCEPT ![p] = None]
  /\ UNCHANGED <<last_response, last_successful_sync, clock, tzoffset, status_resp>>

\* a status read that refreshes the stored time when the sync is stale
GetStatusResync ==
  /\ status_resp' = Some(
       [status    |-> get_sync_status(clock, last_successful_sync),
        server    |-> primary_server,
        last_sync |-> IF last_successful_sync # None
                      THEN Some(IsoFormat(last_successful_sync[1], tzoffset))
                      ELSE None])
  /\ last_successful_sync' =
       IF last_successful_sync # None
          /\ clock - last_successful_sync[1] >= FreshWindow * TicksPerSec
       THEN Some(clock) ELSE last_successful_sync
  /\ UNCHANGED <<last_response, clock, tzoffset, pc, idx, e, hist, ret, req>>

\* GET /status: get_status has no await, it runs in one step
GetStatus ==
  /\ status_resp' = Some(
       [status    |-> get_sync_status(clock, last_successful_sync),
        server    |-> primary_server,
        last_sync |-> IF last_successful_sync # None
                      THEN Some(IsoFormat(last_successful_sync[1], tzoffset))
                      ELSE None])
  /\ UNCHANGED <<last_response, last_successful_sync, clock, tzoffset,
                 pc, idx, e, hist, ret, req>>

\* time passes
Tick ==
  /\ \E d \in ClockSteps :
       /\ clock + d <= MaxClock
       /\ clock' = clock + d
  /\ UNCHANGED <<last_response, last_successful_sync, tzoffset,
                 pc, idx, e, hist, ret, req, status_resp>>

Next ==
  \/ \E p \in Calls, tz \in Timezones : Call(p, tz)
  \/ \E p \in Calls, r \in Replies : PrimaryReply(p, r)
  \/ \E p \in Calls, err \in Errors : PrimaryFail(p, err)
  \/ \E p \in Calls, r \in Replies : BackupReply(p, r)
  \/ \E p \in Calls, err \in Errors : BackupFail(p, err)
  \/ \E p \in Calls : Respond(p)
  \/ GetStatus
  \/ Tick

Spec == Init /\ [][Next]_vars

\* ================================================================= claims
\* the candidates in their configured order
Candidates == <<primary_server>> \o backup_servers

IsResult(p) == pc[p] = "done" /\ ret[p][1].kind = "NTPResponse"
IsFailure(p) == pc[p] = "done" /\ ret[p][1].kind = "HTTPException"

\* the last entry of the query log of call p
LastQuery(p) == hist[p][Len(hist[p])]

\* every query of the log h was answered by an exception
AllQueriesFailed(h) ==
  /\ Len(h) = Len(Candidates)
  /\ \A i \in 1..Len(h) : h[i].state = "failed"

\* C1: in every call the candidates are queried in the configured order, a
\* candidate is queried only after every earlier one has been queried and
\* has failed in the same call, and none is queried after the first one
\* whose query succeeded.
C1_FailoverOrder ==
  \A p \in Calls :
    /\ Len(hist[p]) <= Len(Candidates)
    /\ \A i \in 1..Len(hist[p]) :
         /\ hist[p][i].server = Candidates[i]
         /\ i < Len(hist[p]) => hist[p][i].state = "failed"

\* ms is the number of microseconds us in whole milliseconds, the fraction
\* dropped
TruncatesTo(us, ms) ==
  /\ Abs(ms) * 1000 <= Abs(us)
  /\ Abs(us) < (Abs(ms) + 1) * 1000
  /\ ms # 0 => ((ms < 0) <=> (us < 0))

\* C2: the server a result reports is a candidate whose query succeeded in
\* that call, and the offset, the delay and the stratum of the result are
\* those of the reply of that same server; if the primary failed and the
\* first backup succeeded, the server reported is the first backup.
C2_ReportedServer ==
  \A p \in Calls :
    IsResult(p) =>
      LET res == ret[p][1]
          h == hist[p]
      IN  /\ \E i \in 1..Len(h) :
               /\ h[i].server = res.time_server
               /\ h[i].state = "ok"
               /\ i = Len(h)
               /\ TruncatesTo(h[i].reply[1].offset, res.offset_ms)
               /\ TruncatesTo(h[i].reply[1].delay, res.round_trip_time_ms)
               /\ res.stratum = h[i].reply[1].stratum
          /\ (Len(h) = 2 /\ h[1].state = "failed") => res.time_server = backup_servers[1]

C2_Witness ==
  \E p \in Calls :
    /\ IsResult(p)
    /\ Len(hist[p]) = 2
    /\ hist[p][1].state = "failed"
    /\ ret[p][1].time_server = "pool.ntp.org"
    /\ ret[p][1].offset_ms = -1

\* C3: whenever a call accepts a sample, from the primary or, the primary
\* having failed, from a backup, the step that returns the result leaves
\* last_response at the reply accepted and last_successful_sync at the time
\* of the acceptance.
C3_StoreOnAnySuccess ==
  [][\A p \in Calls :
       (/\ pc[p] # "done" /\ pc'[p] = "done"
        /\ ret'[p][1].kind = "NTPResponse"
        /\ \A i \in 1..(Len(hist'[p]) - 1) : hist'[p][i].state = "failed") =>
         /\ last_response' = hist'[p][Len(hist'[p])].reply
         /\ last_successful_sync' = Some(clock')]_vars

\* C4: a call whose queries to all the configured servers fail ends in the
\* HTTP 503 failure, and no step of the call in which a query fails changes
\* last_response or last_successful_sync.
C4_AllFailUnchanged ==
  [][\A p \in Calls :
       /\ (pc[p] \in {"primary", "backup"}
             /\ hist'[p][Len(hist[p])].state = "failed") => sync' = sync
       /\ (pc[p] # "done" /\ pc'[p] = "done" /\ AllQueriesFailed(hist'[p])) =>
            /\ ret'[p][1].kind = "HTTPException"
            /\ ret'[p][1].status_code = 503
            /\ sync' = sync]_vars

C4_Witness ==
  \E p \in Calls :
    /\ IsFailure(p)
    /\ AllQueriesFailed(hist[p])
    /\ ret[p][1].status_code = 503
    /\ last_response # None
    /\ last_successful_sync # None

\* C5: in every reachable state last_response is set if and only if
\* last_successful_sync is set.
C5_BothOrNeither ==
  (last_response = None) <=> (last_successful_sync = None)

C5_Witness ==
  /\ last_response # None
  /\ last_successful_sync # None
  /\ \E p \in Calls : pc[p] = "backup"

\* the whole seconds in d ticks
WholeSeconds(d) ==
  CHOOSE n \in 0..d : n * TicksPerSec <= d /\ d < (n + 1) * TicksPerSec

\* C6: the status report is "never synced" when last_successful_sync is
\* absent, "recently synced" when less than 120 seconds have passed since
\* it, and otherwise carries the whole seconds that have passed.
C6_StatusBuckets ==
  [][status_resp' # status_resp =>
       status_resp'[1].status =
         IF last_successful_sync = None
         THEN "No sync yet"
         ELSE IF clock - last_successful_sync[1] < 120 * TicksPerSec
              THEN "Last timestamp received less than 2 minutes ago"
              ELSE "Last sync was "
                     \o ToString(WholeSeconds(clock - last_successful_sync[1]))
                     \o " seconds ago"]_vars

C6_Witness ==
  /\ status_resp # None
  /\ status_resp[1].status = "Last sync was 120 seconds ago"
  /\ last_successful_sync = Some(0)
  /\ clock = 120 * TicksPerSec + 1

\* the text of the exception x, as the caller of the API could read it
ErrText(x) == x.type \o ": No response received from " \o x.host \o "."

\* C7: when every candidate fails, the failure returned carries the error of
\* the last candidate tried.
C7_CarriesLastError ==
  \A p \in Calls :
    (IsFailure(p) /\ AllQueriesFailed(hist[p])) =>
      \/ ret[p][1].context = LastQuery(p).error
      \/ ret[p][1].detail = ErrText(LastQuery(p).error[1])

\* C8: every call queries the primary before anything else, and a result is
\* built from a reply received in the same call, never from the sample an
\* earlier call stored.
C8_FreshQuery ==
  \A p \in Calls :
    /\ pc[p] # "idle" =>
         /\ Len(hist[p]) >= 1
         /\ hist[p][1].server = primary_server
    /\ pc[p] = "done" => hist[p][1].state \in {"ok", "failed"}
    /\ IsResult(p) =>
         /\ LastQuery(p).state = "ok"
         /\ ret[p][1].stratum = LastQuery(p).reply[1].stratum
         /\ ret[p][1].received_ntp_time \in
              { HMS(LastQuery(p).reply[1].tx_time, off) : off \in {0, tzoffset} }

C8_Witness ==
  \E p \in Calls :
    /\ IsResult(p)
    /\ last_response # None
    /\ last_response # LastQuery(p).reply
    /\ ret[p][1].stratum # last_response[1].stratum

\* C9: a request for a timezone identifier that is not a known timezone
\* fails with InvalidTimezone.
C9_InvalidTimezone ==
  \A p \in Calls :
    (pc[p] = "done" /\ req[p] = Some("Not/AZone")) =>
      ret[p][1].kind = "InvalidTimezone"

\* the label of OffsetFormatter for an offset in seconds
GmtLabel(offset) ==
  LET minutes == Abs(offset) \div 60
  IN  "GMT " \o (IF offset >= 0 THEN "+" ELSE "-")
        \o D2(minutes \div 60) \o ":" \o D2(minutes % 60)

\* C10: the timezone offset label of a result is "GMT {sign}{hh}:{mm}" for
\* the offset in seconds of the host's timezone.
C10_OffsetLabel ==
  \A p \in Calls :
    IsResult(p) => ret[p][1].timezone_offset = GmtLabel(tzoffset)

\* call p is suspended in the await of a query
Awaiting(p) == pc[p] \in {"primary", "backup"}

\* C11: last_response and last_successful_sync change only in a step that
\* ends a call with a result: the call that changes them does not go on to
\* query another server.
C11_StoreOnlyOnReturn ==
  [][sync' # sync =>
       \E p \in Calls :
         /\ Awaiting(p)
         /\ hist'[p] # hist[p]
         /\ pc'[p] = "done"
         /\ ret'[p][1].kind = "NTPResponse"]_vars

\* C12: every step that changes last_response or last_successful_sync sets
\* both, from one call: last_response becomes the reply that call has just
\* received and last_successful_sync the time of that step, so no step of
\* another call and no status read sees one field new and the other old.
C12_StoredTogether ==
  [][(last_response' # last_response \/ last_successful_sync' # last_successful_sync) =>
       \E p \in Calls :
         /\ pc[p] = "primary"
         /\ hist'[p][1].state = "ok"
         /\ last_response' = hist'[p][1].reply
         /\ last_successful_sync' = Some(clock)]_vars

C12_Witness ==
  \E p \in Calls, q \in Calls :
    /\ p # q
    /\ pc[p] = "done"
    /\ pc[q] = "done"
    /\ hist[p][1].state = "ok"
    /\ hist[q][1].state = "ok"
    /\ hist[p][1].reply # hist[q][1].reply
    /\ last_response = hist[q][1].reply
    /\ last_successful_sync = Some(clock)
    /\ clock > 0
    /\ status_resp # None
    /\ status_resp[1].last_sync = Some(IsoFormat(clock, tzoffset))

\* C13: within one call each server is queried at most once, at most as
\* many queries are made as there are servers (4), and at most one query,
\* the last one issued, is outstanding.
C13_OncePerServer ==
  \A p \in Calls :
    LET h == hist[p]
    IN  /\ Len(h) <= 4
        /\ Len(h) <= 1 + Len(backup_servers)
        /\ \A i \in 1..Len(h), j \in 1..Len(h) :
             (i # j) => (h[i].server # h[j].server)
        /\ \A i \in 1..Len(h) :
             (h[i].state = "pending") => (i = Len(h) /\ Awaiting(p))

C13_Witness ==
  \E p \in Calls :
    /\ pc[p] = "backup"
    /\ Len(hist[p]) = 4
    /\ hist[p][4].state = "pending"
    /\ hist[p][4].server = "time.windows.com"

\* C14: a call ends in a failure only after every configured server has
\* been queried and has failed, and the failure is the HTTP 503 one.
C14_FailureOnlyWhenAllFailed ==
  \A p \in Calls :
    IsFailure(p) =>
      /\ ret[p][1].status_code = 503
      /\ AllQueriesFailed(hist[p])

\* C15: a status read changes neither last_response nor
\* last_successful_sync and issues no query, whatever the calls in flight.
C15_StatusReadOnly ==
  [][status_resp' # status_resp =>
       /\ sync' = sync
       /\ hist' = hist
       /\ pc' = pc
       /\ ret' = ret]_vars

C15_Witness ==
  /\ status_resp # None
  /\ status_resp[1].status = "Last timestamp received less than 2 minutes ago"
  /\ last_response # None
  /\ \E p \in Calls : Awaiting(p)

\* the step call q can take next
StepOf(q) ==
  \/ \E tz \in Timezones : Call(q, tz)
  \/ \E r \in Replies : PrimaryReply(q, r)
  \/ \E err \in Errors : PrimaryFail(q, err)
  \/ \E r \in Replies : BackupReply(q, r)
  \/ \E err \in Errors : BackupFail(q, err)
  \/ Respond(q)

\* C16: while a call waits for a server's reply, every other call can take
\* its next step (start, receive its own reply, return) and a status read can
\* run: nothing is held across the query.
C16_NoBlocking ==
  \A p \in Calls :
    Awaiting(p) =>
      /\ ENABLED GetStatus
      /\ \A q \in Calls \ {p} :
           /\ ENABLED StepOf(q)
           /\ pc[q] = "idle" => ENABLED (\E tz \in Timezones : Call(q, tz))
           /\ pc[q] = "primary" => ENABLED (\E r \in Replies : PrimaryReply(q, r))
           /\ pc[q] = "backup" => ENABLED (\E r \in Replies : BackupReply(q, r))
           /\ pc[q] = "done" => ENABLED Respond(q)

C16_Witness ==
  \E p \in Calls, q \in Calls :
    /\ p # q
    /\ pc[p] = "primary"
    /\ IsResult(q)
    /\ status_resp # None
    /\ status_resp[1].status # "No sync yet"

\* C18: a result reports the received time in UTC whichever candidate
\* supplied the reply, and its last_sync is last_successful_sync as
\* SyncState holds it when the call returns.
C18_SameDerivation ==
  [][\A p \in Calls :
       (/\ pc[p] # "done" /\ pc'[p] = "done"
        /\ ret'[p][1].kind = "NTPResponse"
        /\ \A i \in 1..(Len(hist'[p]) - 1) : hist'[p][i].state = "failed") =>
         LET r == hist'[p][Len(hist'[p])].reply[1]
         IN  /\ ret'[p][1].received_ntp_time = HMS(r.tx_time, 0)
             /\ last_successful_sync' # None
             /\ ret'[p][1].last_sync =
                  HMS(last_successful_sync'[1] \div TicksPerSec, tzoffset)]_vars

\* C19: last_successful_sync, once set, is never cleared and never moves to
\* an earlier time, and a status read made after it is set never reports
\* "No sync yet".
C19_SyncMonotonic ==
  [][last_successful_sync # None =>
       /\ last_successful_sync' # None
       /\ last_successful_sync'[1] >= last_successful_sync[1]
       /\ status_resp' # status_resp => status_resp'[1].status # "No sync yet"]_vars

C19_Witness ==
  /\ last_successful_sync # None
  /\ last_successful_sync[1] > 0
  /\ status_resp # None
  /\ status_resp[1].last_sync = Some(IsoFormat(0, tzoffset))
  /\ status_resp[1].status # "No sync yet"

\* the outstanding query of call p ends, by a reply or by an exception
QueryEnds(p) ==
  \/ \E r \in Replies : PrimaryReply(p, r)
  \/ \E err \in Errors : PrimaryFail(p, err)
  \/ \E r \in Replies : BackupReply(p, r)
  \/ \E err \in Errors : BackupFail(p, err)

\* the host's timezone only changes how times are rendered: the behaviours
\* with fairness are explored for a host on UTC
InitLive == Init /\ tzoffset = 0

\* every query is made with timeout=5: it returns or raises, and the event
\* loop resumes the call that awaits it
SpecLive == InitLive /\ [][Next]_vars /\ \A p \in Calls : WF_vars(QueryEnds(p))

\* C17: provided every query ends, every call that has started ends, with a
\* result or with the HTTP 503 failure.
C17_Terminates ==
  \A p \in Calls :
    Awaiting(p) ~> (IsResult(p) \/ (IsFailure(p) /\ ret[p][1].status_code = 503))

C17_Witness ==
  \E p \in Calls :
    /\ IsFailure(p)
    /\ Len(hist[p]) = 4
    /\ \E q \in Calls : IsResult(q) /\ Len(hist[q]) = 3

====
